---- MODULE Spec2Model ----
(***************************************************************************)
(* A model of the probe engine of icmpenguin (ProbeManager.cpp).           *)
(*                                                                         *)
(* One engine: the thread that calls start(), the worker thread running    *)
(* handler(), caller threads running send_probe(), one thread calling      *)
(* stop(), the kernel (replies, ICMP errors, spurious readiness) and the   *)
(* clock.  Every function that takes probes_mutex for its whole body       *)
(* (std::lock_guard) is one atomic action.                                 *)
(*                                                                         *)
(* The calls are made as the JNI layer makes them: send_probe and stop on   *)
(* an engine start() has returned on, no call begun after stop() returned  *)
(* (the engine is deleted then).  The send_probe calls begin one after the  *)
(* other and may overlap; socket() returns the lowest free descriptor.      *)
(*                                                                         *)
(* Beside the engine, two sequential views follow one send_probe from its    *)
(* arguments to the callback: its sequence number (seq_call) and its whole   *)
(* record, packet and reply buffer included (probe_call).  Two more views    *)
(* follow one call of get_min_wait_time on a given table (wait_call), and   *)
(* the owner of probes_mutex as the worker and one caller thread enter and  *)
(* leave the functions that lock it, the callback included (lock_call).     *)
(*                                                                         *)
(* Time is counted in milliseconds.  The code reads the clock only to form  *)
(* now - tv_sent (timersub), so a record carries that difference, age, in   *)
(* place of tv_sent, and the wait in progress carries the time it has left. *)
(* Both saturate: an age above every timeout compares like any larger one.  *)
(***************************************************************************)
EXTENDS Integers, Sequences, FiniteSets, TLC

\* ------------------------------------------------------------- bounds
\* The number of send_probe calls made on the engine.
MaxProbes == 2
\* Ages saturate at MaxAge, which exceeds every timeout.
MaxAge == 3
\* The per-probe timeouts (ms) callers choose from.
Timeouts == {1, 2}

\* ---------------------------------------------------- program constants
SEND_PROBE_ERROR == -1
SEND_PROBE_SUCCESS == 0

\* The ids of the send_probe calls, in the order the calls begin.
Ids == 1 .. MaxProbes
\* Descriptor numbers available to probe sockets (socket() returns the
\* lowest free one).
Fds == 1 .. MaxProbes
\* Ids a table entry can carry: a call's id, or 0 in a value-initialised record.
Ids0 == 0 .. MaxProbes

\* ProbeStatus
WAITING == "WAITING"
SUCCESS == "SUCCESS"
TIMEOUT == "TIMEOUT"
ERROR == "ERROR"
FATAL_ERROR == "FATAL_ERROR"

VARIABLES
    \* --- construction
    source_set,      \* !source_ip.empty()
    callback_set,    \* trigger_callback holds a target
    \* --- engine state
    probes,          \* the table: descriptor -> ProbeContext
    running,         \* std::atomic<bool> running
    epoll_fd,        \* "none" (-1), "open", "closed"
    wakeup_fd,       \* "none" (-1), "open", "closed"
    start_promise,   \* "unset", "value", "exception"
    \* --- kernel state
    open_fds,        \* probe sockets that are open
    registered,      \* descriptors registered with the epoll instance
    evcount,         \* the eventfd counter
    rxq,             \* per socket: what is pending ("none","data","err","both","spur")
    \* --- threads
    start_pc,        \* start(): "new", "waiting", "returned"
    wpc,             \* the worker's position in handler()
    wait_left,       \* ms left of the epoll_wait in progress; -1: no timeout
    events,          \* descriptors epoll_wait returned and the loop has not handled yet
    wake_event,      \* epoll_wait returned the notifier and the loop has not handled it yet
    stop_pc,         \* stop(): "idle", "stored", "woken", "returned"
    call_pc,         \* per send_probe call: "idle", "sent", "returned", "threw"
    call_local,      \* per call: the local ProbeContext and its socket
    call_ret,        \* per call: the value returned
    \* --- history
    call_outcome,    \* per call: what its system calls did ("none": not made yet)
    delivered,       \* per id: the callback invocations, in order
    unlocked,        \* the accesses made so far without probes_mutex held
    \* --- the sequence number of one ICMP probe, from argument to result
    seq_call,        \* the argument, probe.sequence, packet_data's header, the result
    \* --- one probe's record, from send_probe's arguments to the callback
    probe_call,      \* the arguments, the ProbeContext, what was received, the result
    \* --- one call of get_min_wait_time
    wait_call,       \* the table and the clock it reads, and what it returns
    \* --- probes_mutex, the worker and one caller thread
    lock_call        \* the owner of the mutex and where the two threads are

vars == << source_set, callback_set, probes, running, epoll_fd,
           wakeup_fd, start_promise, open_fds, registered, evcount, rxq,
           start_pc, wpc, wait_left, events, wake_event, stop_pc,
           call_pc, call_local, call_ret, call_outcome, delivered, unlocked,
           seq_call, probe_call, wait_call, lock_call >>

\* A value-initialised ProbeContext (what probes[fd] creates for a missing key),
\* and the locals of a send_probe call that has not begun.
NoProbe == [id |-> 0, status |-> WAITING, age |-> 0, timeout |-> 0]
NoLocal == [probe |-> NoProbe, sock |-> 0]

\* ------------------------------------------------------- probes_mutex
\* The functions whose body begins with std::lock_guard lock(probes_mutex).
\* The others that touch the table or the epoll registrations: setup_epoll.
LockGuarded ==
    {"add_socket", "force_timeouts", "clean_probes", "check_timeouts",
     "send_callbacks", "get_min_wait_time", "get_queue_size", "read_data"}

\* A locking in which the worker keeps the mutex through epoll_wait.
HoldsMutexInWait(fn) == fn \in LockGuarded \cup {"epoll_wait"}

\* A locking in which send_callbacks takes no lock.
HoldsMutexButSendCallbacks(fn) == fn \in LockGuarded \ {"send_callbacks"}

\* A locking in which add_socket takes no lock.
HoldsMutexButAddSocket(fn) == fn \in LockGuarded \ {"add_socket"}

\* Function fn holds probes_mutex while it runs.
HoldsMutex(fn) == fn \in LockGuarded

\* The log of unlocked accesses after fn has made access what (the probe
\* table, or an epoll_ctl operation and the descriptor it is about).
Access(log, fn, what) ==
    IF HoldsMutex(fn) THEN log ELSE log \cup {[fn |-> fn, what |-> what]}

\* setup_epoll's one access: the notifier's registration.
SetupAccess == [fn |-> "setup_epoll", what |-> "EPOLL_CTL_ADD wakeup_fd"]

\* ------------------------------------------------------- construction
\* What an address string is: a dotted IPv4 address, an IPv6 address, neither,
\* or (a source only) the empty string.
RemoteKinds == {"v4", "v6", "bad"}
SourceKinds == {"empty", "v4", "v6", "bad"}

\* try_init_addr: inet_pton(family, addr) > 0.
try_init_addr(fam, kind) ==
    (fam = "AF_INET" /\ kind = "v4") \/ (fam = "AF_INET6" /\ kind = "v6")

\* try_init_addr writes the family into the storage before it parses, and the
\* constructor tries AF_INET, then AF_INET6: the family left behind is that of
\* the last attempt.
RemoteFamily(kind) ==
    IF try_init_addr("AF_INET", kind) THEN "AF_INET" ELSE "AF_INET6"

\* The constructor returns early when the destination parses as neither.
DestinationParsed(kind) ==
    try_init_addr("AF_INET", kind) \/ try_init_addr("AF_INET6", kind)

\* source_ip stays non-empty only when it parses; trigger_callback is assigned
\* after both addresses, so only when the constructor did not return early.
Construct(rk, sk) ==
    [family       |-> RemoteFamily(rk),
     source_set   |-> DestinationParsed(rk) /\ sk # "empty"
                        /\ (try_init_addr("AF_INET", sk) \/ try_init_addr("AF_INET6", sk)),
     callback_set |-> DestinationParsed(rk)]

\* No sequence number is being followed.
NoSeqCall == [pc |-> "off", family |-> "AF_INET", ident |-> 0, arg |-> 0,
              sequence |-> 0, packet_data |-> << >>, result |-> 0]

\* The engine made by the constructor's result c.  Not started: its members at
\* their in-class initialisers and no thread.  Started: as start() leaves it
\* when the worker set up and signalled (the state in which the JNI create
\* returns the engine), the worker about to test running for the first time.
EngineState(c, started) ==
    /\ source_set = c.source_set
    /\ callback_set = c.callback_set
    /\ probes = << >>
    /\ running = started
    /\ epoll_fd = IF started THEN "open" ELSE "none"
    /\ wakeup_fd = IF started THEN "open" ELSE "none"
    /\ start_promise = IF started THEN "value" ELSE "unset"
    /\ open_fds = {}
    /\ registered = {}
    /\ evcount = 0
    /\ rxq = [f \in Fds |-> "none"]
    /\ start_pc = IF started THEN "returned" ELSE "new"
    /\ wpc = IF started THEN "loop" ELSE "nothread"
    /\ wait_left = -1
    /\ events = {}
    /\ wake_event = FALSE
    /\ stop_pc = "idle"
    /\ call_pc = [p \in Ids |-> "idle"]
    /\ call_local = [p \in Ids |-> NoLocal]
    /\ call_ret = [p \in Ids |-> SEND_PROBE_SUCCESS]
    /\ call_outcome = [p \in Ids |-> "none"]
    /\ delivered = [p \in Ids0 |-> << >>]
    /\ unlocked = IF started THEN Access({}, SetupAccess.fn, SetupAccess.what) ELSE {}

\* No record is being followed.
NoProbeCall == [pc |-> "off", family |-> "AF_INET", ident |-> 0, size |-> 0,
                pattern |-> << >>, probe |-> NoProbe, data_len |-> 0,
                result |-> NoProbe]

\* The mutex is not being followed.
NoLockCall == [pc |-> "off", owner |-> "none",
               wfn |-> "get_min_wait_time", wat |-> "call", todo |-> 0,
               final |-> FALSE, wcb |-> "none",
               cfn |-> "none", cat |-> "idle", ccb |-> "none"]

\* No call of get_min_wait_time is being followed.
NoWaitCall == [pc |-> "off", probes |-> << >>, ret |-> -1]

InitWith(rks, sks, started) ==
    /\ \E rk \in rks, sk \in sks : EngineState(Construct(rk, sk), started)
    /\ seq_call = NoSeqCall
    /\ probe_call = NoProbeCall
    /\ wait_call = NoWaitCall
    /\ lock_call = NoLockCall

\* An engine whose destination parsed, as the constructor leaves it.
Init == InitWith({"v4", "v6"}, SourceKinds, FALSE)

\* The same engine once start() has returned with the worker in service.
InitStarted == InitWith({"v4", "v6"}, SourceKinds, TRUE)

\* An engine constructed on a destination that parses as neither family (the
\* JNI create starts it like any other), once start() has returned.
InitInert == InitWith(RemoteKinds \ {"v4", "v6"}, SourceKinds, TRUE)

\* The process is alive: no exception has escaped the worker's thread function
\* (std::terminate) or a send_probe call (the JNI function that made the call
\* has no handler for it).
Alive == wpc # "terminated" /\ \A p \in Ids : call_pc[p] # "threw"

\* ------------------------------------------------------------- helpers
Min(S) == CHOOSE x \in S : \A y \in S : x <= y

Waiting(tbl) == {f \in DOMAIN tbl : tbl[f].status = WAITING}
Terminal(tbl) == {f \in DOMAIN tbl : tbl[f].status # WAITING}

\* A wakeup_event whose write never reaches the notifier.
wakeup_event_lost(cnt) == cnt

\* wakeup_event(): write(wakeup_fd, 1); the write fails when wakeup_fd is -1
\* or closed.
wakeup_event(cnt) == IF wakeup_fd = "open" THEN cnt + 1 ELSE cnt

\* --------------------------------------------------------------- start
\* start(): spawn the worker.
StartSpawn ==
    /\ Alive
    /\ start_pc = "new"
    /\ start_pc' = "waiting"
    /\ wpc' = "setup"
    /\ UNCHANGED << source_set, callback_set, probes, running, epoll_fd, wakeup_fd,
                    start_promise, open_fds, registered, evcount, rxq, wait_left,
                    events, wake_event, stop_pc, call_pc, call_local, call_ret,
                    call_outcome, delivered, unlocked, seq_call, probe_call, wait_call,
                    lock_call >>

\* start(): wait_for returned because the promise was fulfilled.  It does not
\* rethrow a stored exception: it returns ready for a value and for an
\* exception alike, and start() returns nothing.
StartSignalled ==
    /\ Alive
    /\ start_pc = "waiting"
    /\ start_promise # "unset"
    /\ start_pc' = "returned"
    /\ UNCHANGED << source_set, callback_set, probes, running, epoll_fd, wakeup_fd,
                    start_promise, open_fds, registered, evcount, rxq, wpc, wait_left,
                    events, wake_event, stop_pc, call_pc, call_local, call_ret,
                    call_outcome, delivered, unlocked, seq_call, probe_call, wait_call,
                    lock_call >>

\* start(): the 10 s wait ran out before the worker fulfilled the promise.
StartTimeout ==
    /\ Alive
    /\ start_pc = "waiting"
    /\ start_promise = "unset"
    /\ start_pc' = "returned"
    /\ UNCHANGED << source_set, callback_set, probes, running, epoll_fd, wakeup_fd,
                    start_promise, open_fds, registered, evcount, rxq, wpc, wait_left,
                    events, wake_event, stop_pc, call_pc, call_local, call_ret,
                    call_outcome, delivered, unlocked, seq_call, probe_call, wait_call,
                    lock_call >>

\* -------------------------------------------------------------- worker
\* setup_epoll(): what it leaves in epoll_fd and wakeup_fd when epoll_create1
\* fails ("no_epoll"), when eventfd fails ("no_eventfd"), and otherwise.
SetupOutcomes == {"ok", "no_epoll", "no_eventfd"}
setup_epoll(outcome) ==
    [epoll_fd  |-> IF outcome = "no_epoll" THEN "none" ELSE "open",
     wakeup_fd |-> IF outcome = "ok" THEN "open" ELSE "none"]

\* A handler that tests epoll_fd alone.
SetupFailedEpollOnly(e, w) == e # "open"

\* handler(): epoll_fd < 0 || wakeup_fd < 0
SetupFailed(e, w) == e # "open" \/ w # "open"

\* handler(): setup_epoll(), and on failure set_exception and return.
WorkerSetup ==
    /\ Alive
    /\ wpc = "setup"
    /\ \E outcome \in SetupOutcomes :
          LET r == setup_epoll(outcome) IN
          /\ epoll_fd' = r.epoll_fd
          /\ wakeup_fd' = r.wakeup_fd
          /\ unlocked' = IF outcome = "ok"
                             THEN Access(unlocked, SetupAccess.fn, SetupAccess.what)
                             ELSE unlocked
          /\ IF SetupFailed(r.epoll_fd, r.wakeup_fd)
                THEN /\ start_promise' = "exception"
                     /\ wpc' = "exited"
                ELSE /\ start_promise' = start_promise
                     /\ wpc' = "setrunning"
    /\ UNCHANGED << source_set, callback_set, probes, running, open_fds, registered,
                    evcount, rxq, start_pc, wait_left, events, wake_event, stop_pc,
                    call_pc, call_local, call_ret, call_outcome, delivered, seq_call,
                    probe_call, wait_call, lock_call >>

\* A handler that goes on to signal without the store to running.
WorkerSignalsNotRunning ==
    /\ Alive
    /\ wpc = "setrunning"
    /\ wpc' = "signal"
    /\ UNCHANGED << source_set, callback_set, probes, running, epoll_fd, wakeup_fd,
                    start_promise, open_fds, registered, evcount, rxq, start_pc,
                    wait_left, events, wake_event, stop_pc, call_pc, call_local,
                    call_ret, call_outcome, delivered, unlocked, seq_call, probe_call,
                    wait_call, lock_call >>

\* handler(): running.store(true)
WorkerSetRunning ==
    /\ Alive
    /\ wpc = "setrunning"
    /\ running' = TRUE
    /\ wpc' = "signal"
    /\ UNCHANGED << source_set, callback_set, probes, epoll_fd, wakeup_fd,
                    start_promise, open_fds, registered, evcount, rxq, start_pc,
                    wait_left, events, wake_event, stop_pc, call_pc, call_local,
                    call_ret, call_outcome, delivered, unlocked, seq_call, probe_call,
                    wait_call, lock_call >>

\* handler(): start_promise.set_value()
WorkerSignal ==
    /\ Alive
    /\ wpc = "signal"
    /\ start_promise' = "value"
    /\ wpc' = "loop"
    /\ UNCHANGED << source_set, callback_set, probes, running, epoll_fd, wakeup_fd,
                    open_fds, registered, evcount, rxq, start_pc, wait_left, events,
                    wake_event, stop_pc, call_pc, call_local, call_ret, call_outcome,
                    delivered, unlocked, seq_call, probe_call, wait_call, lock_call >>

\* The loop step without the clamp of a negative remainder to 0.
MinWaitStepNoClamp(acc, p) ==
    LET timeout == p.timeout - p.age IN
    IF acc = -1 \/ timeout < acc THEN timeout ELSE acc

\* get_min_wait_time(): the loop over the table, in the order it visits the
\* entries; acc is min_wait_time.
MinWaitStep(acc, p) ==
    LET timeout == p.timeout - p.age IN
    IF acc = -1 \/ timeout < acc
        THEN (IF timeout < 0 THEN 0 ELSE timeout)
        ELSE acc

RECURSIVE MinWaitLoop(_, _, _)
MinWaitLoop(tbl, todo, acc) ==
    IF todo = {} THEN acc
    ELSE LET f == Min(todo) IN
         MinWaitLoop(tbl, todo \ {f},
                     IF tbl[f].status = WAITING THEN MinWaitStep(acc, tbl[f]) ELSE acc)

get_min_wait_time(tbl) == MinWaitLoop(tbl, DOMAIN tbl, -1)

\* handler(): while (running.load()), and the argument of epoll_wait.  The wait
\* is taken to begin when its argument is computed.
WorkerLoop ==
    /\ Alive
    /\ wpc = "loop"
    /\ IF running
          THEN /\ wait_left' = get_min_wait_time(probes)
               /\ unlocked' = Access(unlocked, "get_min_wait_time", "probes")
               /\ wpc' = "wait"
          ELSE /\ wait_left' = wait_left
               /\ unlocked' = unlocked
               /\ wpc' = "force"
    /\ UNCHANGED << source_set, callback_set, probes, running, epoll_fd, wakeup_fd,
                    start_promise, open_fds, registered, evcount, rxq, start_pc,
                    events, wake_event, stop_pc, call_pc, call_local, call_ret,
                    call_outcome, delivered, seq_call, probe_call, wait_call,
                    lock_call >>

\* What the epoll instance reports: registered sockets with something pending
\* (EPOLLIN for data, EPOLLERR for the error queue), and the notifier while its
\* counter is not zero.
ReadySockets == {f \in registered : rxq[f] # "none"}
NotifierReady == evcount > 0
WaitExpired == wait_left = 0

\* epoll_wait can return.
CanWake == ReadySockets # {} \/ NotifierReady \/ WaitExpired

\* handler(): epoll_wait returns.
WorkerEpollWait ==
    /\ Alive
    /\ wpc = "wait"
    /\ CanWake
    /\ events' = ReadySockets
    /\ wake_event' = NotifierReady
    /\ wpc' = IF ReadySockets = {} /\ ~NotifierReady THEN "check" ELSE "dispatch"
    /\ UNCHANGED << source_set, callback_set, probes, running, epoll_fd, wakeup_fd,
                    start_promise, open_fds, registered, evcount, rxq, start_pc,
                    wait_left, stop_pc, call_pc, call_local, call_ret, call_outcome,
                    delivered, unlocked, seq_call, probe_call, wait_call, lock_call >>

\* handler(): the event is the notifier: read(wakeup_fd) takes the counter.
WorkerDrainWakeup ==
    /\ Alive
    /\ wpc = "dispatch"
    /\ wake_event
    /\ evcount' = 0
    /\ wake_event' = FALSE
    /\ wpc' = IF events = {} THEN "check" ELSE "dispatch"
    /\ UNCHANGED << source_set, callback_set, probes, running, epoll_fd, wakeup_fd,
                    start_promise, open_fds, registered, rxq, start_pc, wait_left,
                    events, stop_pc, call_pc, call_local, call_ret, call_outcome,
                    delivered, unlocked, seq_call, probe_call, wait_call, lock_call >>

\* A receiver that runs the data pass whatever the error pass found.
read_data_both_passes(p, q) ==
    IF q \in {"data", "both"} THEN [p EXCEPT !.status = SUCCESS]
    ELSE IF q = "err" THEN [p EXCEPT !.status = ERROR]
    ELSE [p EXCEPT !.status = TIMEOUT]

\* read_data(): the record after the receiver ran with q pending on the socket.
\* status is first set to TIMEOUT; pass 1 (MSG_ERRQUEUE) sets ERROR when an
\* extended error is queued and then stops; pass 2 sets SUCCESS when a datagram
\* is queued.
HasError(q) == q \in {"err", "both"}
HasData(q) == q \in {"data", "both"}
read_data(p, q) ==
    LET reset == [p EXCEPT !.status = TIMEOUT]
        pass1 == IF HasError(q) THEN [reset EXCEPT !.status = ERROR] ELSE reset
        pass2 == IF pass1.status # ERROR /\ HasData(q)
                    THEN [pass1 EXCEPT !.status = SUCCESS] ELSE pass1
    IN pass2

\* What is left pending on the socket after read_data.
rx_after(q) ==
    IF q = "both" THEN "data" ELSE "none"

\* probes[fd]: the entry, value-initialised when the key is missing.
Lookup(tbl, f) == IF f \in DOMAIN tbl THEN tbl[f] ELSE NoProbe

\* handler(): the event is a socket: read_data(fd).
WorkerReadData ==
    /\ Alive
    /\ wpc = "dispatch"
    /\ ~wake_event
    /\ events # {}
    /\ LET f == Min(events) IN
          /\ probes' = (f :> read_data(Lookup(probes, f), rxq[f])) @@ probes
          /\ rxq' = [rxq EXCEPT ![f] = rx_after(rxq[f])]
          /\ events' = events \ {f}
          /\ wpc' = IF events \ {f} = {} THEN "check" ELSE "dispatch"
    /\ unlocked' = Access(unlocked, "read_data", "probes")
    /\ UNCHANGED << source_set, callback_set, running, epoll_fd, wakeup_fd,
                    start_promise, open_fds, registered, evcount, start_pc, wait_left,
                    wake_event, stop_pc, call_pc, call_local, call_ret, call_outcome,
                    delivered, seq_call, probe_call, wait_call, lock_call >>

\* check_timeouts(): now - tv_sent > timeout
Expired(p) == p.age > p.timeout

check_timeouts(tbl) ==
    [f \in DOMAIN tbl |->
        IF tbl[f].status = WAITING /\ Expired(tbl[f])
            THEN [tbl[f] EXCEPT !.status = TIMEOUT] ELSE tbl[f]]

WorkerCheckTimeouts ==
    /\ Alive
    /\ wpc = "check"
    /\ probes' = check_timeouts(probes)
    /\ unlocked' = Access(unlocked, "check_timeouts", "probes")
    /\ wpc' = "callbacks"
    /\ UNCHANGED << source_set, callback_set, running, epoll_fd, wakeup_fd,
                    start_promise, open_fds, registered, evcount, rxq, start_pc,
                    wait_left, events, wake_event, stop_pc, call_pc, call_local,
                    call_ret, call_outcome, delivered, seq_call, probe_call, wait_call,
                    lock_call >>

\* One invocation of the callback: the status handed over and the thread.
Delivery(st, th) == [status |-> st, thread |-> th]

\* send_callbacks(): the callback once per entry that is not WAITING.
send_callbacks(tbl, dl) ==
    [i \in Ids0 |->
        IF \E f \in Terminal(tbl) : tbl[f].id = i
            THEN LET f == CHOOSE g \in Terminal(tbl) : tbl[g].id = i
                 IN Append(dl[i], Delivery(tbl[f].status, "worker"))
            ELSE dl[i]]

\* handler(): send_callbacks().  Calling an empty std::function throws, and the
\* exception leaves the thread function.
WorkerSendCallbacks ==
    /\ Alive
    /\ wpc = "callbacks"
    /\ IF callback_set \/ Terminal(probes) = {}
          THEN /\ delivered' = send_callbacks(probes, delivered)
               /\ wpc' = "clean"
          ELSE /\ delivered' = delivered
               /\ wpc' = "terminated"
    /\ unlocked' = Access(unlocked, "send_callbacks", "probes")
    /\ UNCHANGED << source_set, callback_set, probes, running, epoll_fd, wakeup_fd,
                    start_promise, open_fds, registered, evcount, rxq, start_pc,
                    wait_left, events, wake_event, stop_pc, call_pc, call_local,
                    call_ret, call_outcome, seq_call, probe_call, wait_call,
                    lock_call >>

\* A reaper that erases every entry, WAITING or not.
clean_probes_erase_all(tbl) == << >>

\* A reaper that closes the descriptors and leaves the entries in the table.
clean_probes_no_erase(tbl) == tbl

\* clean_probes(): EPOLL_CTL_DEL, close and erase every entry that is not
\* WAITING.
clean_probes(tbl) == [f \in Waiting(tbl) |-> tbl[f]]

CleanEffect ==
    /\ probes' = clean_probes(probes)
    /\ registered' = registered \ Terminal(probes)
    /\ open_fds' = open_fds \ Terminal(probes)
    /\ rxq' = [f \in Fds |-> IF f \in Terminal(probes) THEN "none" ELSE rxq[f]]
    /\ unlocked' = Access(Access(unlocked, "clean_probes", "probes"),
                          "clean_probes", "EPOLL_CTL_DEL socket")

\* handler(): clean_probes() at the end of a loop iteration.
WorkerClean ==
    /\ Alive
    /\ wpc = "clean"
    /\ CleanEffect
    /\ wpc' = "loop"
    /\ UNCHANGED << source_set, callback_set, running, epoll_fd, wakeup_fd,
                    start_promise, evcount, start_pc, wait_left, events, wake_event,
                    stop_pc, call_pc, call_local, call_ret, call_outcome, delivered,
                    seq_call, probe_call, wait_call, lock_call >>

\* force_timeouts(): every WAITING entry becomes TIMEOUT.
force_timeouts(tbl) ==
    [f \in DOMAIN tbl |->
        IF tbl[f].status = WAITING THEN [tbl[f] EXCEPT !.status = TIMEOUT] ELSE tbl[f]]

\* handler(): after the loop, force_timeouts().
WorkerForceTimeouts ==
    /\ Alive
    /\ wpc = "force"
    /\ probes' = force_timeouts(probes)
    /\ unlocked' = Access(unlocked, "force_timeouts", "probes")
    /\ wpc' = "finalclean"
    /\ UNCHANGED << source_set, callback_set, running, epoll_fd, wakeup_fd,
                    start_promise, open_fds, registered, evcount, rxq, start_pc,
                    wait_left, events, wake_event, stop_pc, call_pc, call_local,
                    call_ret, call_outcome, delivered, seq_call, probe_call, wait_call,
                    lock_call >>

\* handler(): after the loop, clean_probes().
WorkerFinalClean ==
    /\ Alive
    /\ wpc = "finalclean"
    /\ CleanEffect
    /\ wpc' = "close"
    /\ UNCHANGED << source_set, callback_set, running, epoll_fd, wakeup_fd,
                    start_promise, evcount, start_pc, wait_left, events, wake_event,
                    stop_pc, call_pc, call_local, call_ret, call_outcome, delivered,
                    seq_call, probe_call, wait_call, lock_call >>

\* handler(): close(wakeup_fd); close(epoll_fd); return.
WorkerClose ==
    /\ Alive
    /\ wpc = "close"
    /\ wakeup_fd' = "closed"
    /\ epoll_fd' = "closed"
    /\ registered' = {}
    /\ evcount' = 0
    /\ wpc' = "exited"
    /\ UNCHANGED << source_set, callback_set, probes, running, start_promise, open_fds,
                    rxq, start_pc, wait_left, events, wake_event, stop_pc, call_pc,
                    call_local, call_ret, call_outcome, delivered, unlocked, seq_call,
                    probe_call, wait_call, lock_call >>

\* ---------------------------------------------------------------- stop
\* stop(): running.store(false)
StopStore ==
    /\ Alive
    /\ stop_pc = "idle"
    /\ start_pc = "returned"
    /\ running' = FALSE
    /\ stop_pc' = "stored"
    /\ UNCHANGED << source_set, callback_set, probes, epoll_fd, wakeup_fd,
                    start_promise, open_fds, registered, evcount, rxq, start_pc, wpc,
                    wait_left, events, wake_event, call_pc, call_local, call_ret,
                    call_outcome, delivered, unlocked, seq_call, probe_call, wait_call,
                    lock_call >>

\* stop(): wakeup_event()
StopWakeup ==
    /\ Alive
    /\ stop_pc = "stored"
    /\ evcount' = wakeup_event(evcount)
    /\ stop_pc' = "woken"
    /\ UNCHANGED << source_set, callback_set, probes, running, epoll_fd, wakeup_fd,
                    start_promise, open_fds, registered, rxq, start_pc, wpc, wait_left,
                    events, wake_event, call_pc, call_local, call_ret, call_outcome,
                    delivered, unlocked, seq_call, probe_call, wait_call, lock_call >>

\* stop(): worker.join() returns once the thread function has returned.
StopJoin ==
    /\ Alive
    /\ stop_pc = "woken"
    /\ wpc = "exited"
    /\ stop_pc' = "returned"
    /\ UNCHANGED << source_set, callback_set, probes, running, epoll_fd, wakeup_fd,
                    start_promise, open_fds, registered, evcount, rxq, start_pc, wpc,
                    wait_left, events, wake_event, call_pc, call_local, call_ret,
                    call_outcome, delivered, unlocked, seq_call, probe_call, wait_call,
                    lock_call >>

\* ---------------------------------------------------------- send_probe
\* What the system calls of one send_probe do: socket() fails; bind() fails;
\* sendto() fails with EMSGSIZE, or with another errno; or all succeed.
SendOutcomes == {"socket_fail", "bind_fail", "EMSGSIZE", "ENETUNREACH", "sent"}

\* sendto's errno ("none": it succeeded).
SendErrno(o) == IF o \in {"EMSGSIZE", "ENETUNREACH"} THEN o ELSE "none"

\* send_probe: sendto(...) < 0 and errno != EMSGSIZE
SendtoFatal(errno) == errno # "none" /\ errno # "EMSGSIZE"

\* send_probe: the call takes one of its three FATAL_ERROR returns.
FatalPath(o) == o = "socket_fail" \/ o = "bind_fail" \/ SendtoFatal(SendErrno(o))

\* socket(): the lowest descriptor number that is free.
LowestFree == Min(Fds \ open_fds)

\* The ProbeContext send_probe builds, stamped by gettimeofday before sendto.
NewProbe(p, timeout) == [id |-> p, status |-> WAITING, age |-> 0, timeout |-> timeout]

\* send_probe up to and including sendto.  On a FATAL_ERROR path a socket that
\* was opened is closed again, the callback runs on this thread and the call
\* returns SEND_PROBE_ERROR; calling an empty std::function throws instead
\* (std::bad_function_call leaves send_probe).  bind() is called only when
\* source_ip is not empty.
SendProbeSend(p) ==
    /\ Alive
    /\ start_pc = "returned"
    /\ stop_pc # "returned"
    /\ call_pc[p] = "idle"
    /\ \A q \in Ids : q < p => call_pc[q] # "idle"
    /\ \E o \in SendOutcomes, timeout \in Timeouts :
          /\ o = "bind_fail" => source_set
          /\ call_outcome' = [call_outcome EXCEPT ![p] = o]
          /\ IF FatalPath(o)
                THEN /\ IF callback_set
                           THEN /\ delivered' = [delivered EXCEPT ![p] =
                                        Append(@, Delivery(FATAL_ERROR, "caller"))]
                                /\ call_ret' = [call_ret EXCEPT ![p] = SEND_PROBE_ERROR]
                                /\ call_pc' = [call_pc EXCEPT ![p] = "returned"]
                           ELSE /\ delivered' = delivered
                                /\ call_ret' = call_ret
                                /\ call_pc' = [call_pc EXCEPT ![p] = "threw"]
                     /\ call_local' = call_local
                     /\ open_fds' = open_fds
                ELSE /\ open_fds' = open_fds \cup {LowestFree}
                     /\ call_local' = [call_local EXCEPT ![p] =
                            [probe |-> NewProbe(p, timeout), sock |-> LowestFree]]
                     /\ call_pc' = [call_pc EXCEPT ![p] = "sent"]
                     /\ delivered' = delivered
                     /\ call_ret' = call_ret
    /\ UNCHANGED << source_set, callback_set, probes, running, epoll_fd, wakeup_fd,
                    start_promise, registered, evcount, rxq, start_pc, wpc, wait_left,
                    events, wake_event, stop_pc, unlocked, seq_call, probe_call,
                    wait_call, lock_call >>

\* add_socket(): store the record under the descriptor, EPOLL_CTL_ADD (which
\* fails when epoll_fd is -1 or closed) and wakeup_event(); then send_probe
\* returns SEND_PROBE_SUCCESS.
add_socket(tbl, f, p) == (f :> p) @@ tbl

SendProbeAdd(p) ==
    /\ Alive
    /\ call_pc[p] = "sent"
    /\ probes' = add_socket(probes, call_local[p].sock, call_local[p].probe)
    /\ registered' = IF epoll_fd = "open"
                        THEN registered \cup {call_local[p].sock} ELSE registered
    /\ evcount' = wakeup_event(evcount)
    /\ call_ret' = [call_ret EXCEPT ![p] = SEND_PROBE_SUCCESS]
    /\ call_pc' = [call_pc EXCEPT ![p] = "returned"]
    /\ call_local' = [call_local EXCEPT ![p] = NoLocal]
    /\ unlocked' = Access(Access(unlocked, "add_socket", "probes"),
                          "add_socket", "EPOLL_CTL_ADD socket")
    /\ UNCHANGED << source_set, callback_set, running, epoll_fd, wakeup_fd,
                    start_promise, open_fds, rxq, start_pc, wpc, wait_left, events,
                    wake_event, stop_pc, call_outcome, delivered, seq_call, probe_call,
                    wait_call, lock_call >>

\* get_queue_size(): probes.size(), read with the lock held.
get_queue_size == Cardinality(DOMAIN probes)

\* -------------------------------------------------------------- kernel
\* The sockets something can arrive on: registered, their probe still WAITING.
\* What is pending on a socket is seen by the program only through epoll_wait
\* and read_data, so an arrival is taken while the worker is in epoll_wait: one
\* that comes earlier in the loop is the same arrival met at the next wait.
Listening ==
    IF wpc = "wait"
        THEN {f \in registered : f \in DOMAIN probes /\ probes[f].status = WAITING}
        ELSE {}

\* The datagram of the probe under f went out: sendto succeeded.
OnTheWire(f) == probes[f].id \in Ids /\ call_outcome[probes[f].id] = "sent"

\* A reply datagram is queued on the socket.
NetReply(f) ==
    /\ Alive
    /\ f \in Listening
    /\ OnTheWire(f)
    /\ rxq[f] \in {"none", "err"}
    /\ rxq' = [rxq EXCEPT ![f] = IF rxq[f] = "err" THEN "both" ELSE "data"]
    /\ UNCHANGED << source_set, callback_set, probes, running, epoll_fd, wakeup_fd,
                    start_promise, open_fds, registered, evcount, start_pc, wpc,
                    wait_left, events, wake_event, stop_pc, call_pc, call_local,
                    call_ret, call_outcome, delivered, unlocked, seq_call, probe_call,
                    wait_call, lock_call >>

\* An extended error (an ICMP error, or the local EMSGSIZE) is queued on the
\* socket's error queue.
NetError(f) ==
    /\ Alive
    /\ f \in Listening
    /\ rxq[f] \in {"none", "data"}
    /\ rxq' = [rxq EXCEPT ![f] = IF rxq[f] = "data" THEN "both" ELSE "err"]
    /\ UNCHANGED << source_set, callback_set, probes, running, epoll_fd, wakeup_fd,
                    start_promise, open_fds, registered, evcount, start_pc, wpc,
                    wait_left, events, wake_event, stop_pc, call_pc, call_local,
                    call_ret, call_outcome, delivered, unlocked, seq_call, probe_call,
                    wait_call, lock_call >>

\* The socket is reported ready although neither receive will yield anything
\* (a datagram that is dropped on receive, such as one with a bad checksum).
NetSpurious(f) ==
    /\ Alive
    /\ f \in Listening
    /\ rxq[f] = "none"
    /\ rxq' = [rxq EXCEPT ![f] = "spur"]
    /\ UNCHANGED << source_set, callback_set, probes, running, epoll_fd, wakeup_fd,
                    start_promise, open_fds, registered, evcount, start_pc, wpc,
                    wait_left, events, wake_event, stop_pc, call_pc, call_local,
                    call_ret, call_outcome, delivered, unlocked, seq_call, probe_call,
                    wait_call, lock_call >>

\* A millisecond passes: every record stamped by gettimeofday is a millisecond
\* older, and the wait in progress has a millisecond less left.
Older(p) == IF p.id = 0 \/ p.age >= MaxAge THEN p ELSE [p EXCEPT !.age = p.age + 1]

Tick ==
    /\ Alive
    /\ probes' = [f \in DOMAIN probes |-> Older(probes[f])]
    /\ call_local' = [p \in Ids |-> [call_local[p] EXCEPT !.probe = Older(call_local[p].probe)]]
    /\ wait_left' = IF wpc = "wait" /\ wait_left > 0 THEN wait_left - 1 ELSE wait_left
    /\ UNCHANGED << source_set, callback_set, running, epoll_fd, wakeup_fd,
                    start_promise, open_fds, registered, evcount, rxq, start_pc, wpc,
                    events, wake_event, stop_pc, call_pc, call_ret, call_outcome,
                    delivered, unlocked, seq_call, probe_call, wait_call, lock_call >>

\* ------------------------------------------------- the sequence number
\* The sequence arguments followed: the first few, and those around 2^16.
SeqWindow == 12
SeqArgs == (0 .. SeqWindow) \cup ((65536 - SeqWindow) .. (65536 + SeqWindow))
\* The values the constructor's random ident takes here.
Idents == {0, 4660, 65535}

ICMP_ECHO == 8
ICMPV6_ECHO_REQUEST == 128
ICMP_HEADER_SIZE == 8

\* send_probe: .sequence = sequence % 0xffff (both operands int, sequence >= 0)
StoredSequence(sequence) == sequence % 65535

\* htons(x): x converted to uint16_t, its two bytes in network order as they
\* lie in memory, high byte first.
htons(x) == LET u == x % (2 ^ 16) IN << u \div 256, u % 256 >>

\* init_packet_data: where the payload begins, and the size of the packet.
data_offset_zero(probe_type) == 0
data_offset(probe_type) == IF probe_type = "ICMP" THEN ICMP_HEADER_SIZE ELSE 0

packet_size(probe_type, size) ==
    IF probe_type = "ICMP" /\ size < ICMP_HEADER_SIZE THEN ICMP_HEADER_SIZE ELSE size

\* memcpy(dst + at, src, n).  The code counts bytes from 0, a sequence from 1.
memcpy(dst, at, src, n) ==
    [i \in 1 .. Len(dst) |-> IF i > at /\ i <= at + n THEN src[i - at] ELSE dst[i]]

\* The echo header (struct icmphdr, struct icmp6hdr): type, code, checksum
\* (2 bytes, left 0 by memset), identifier, sequence.
EchoHeader(family, ident, sequence) ==
    << IF family = "AF_INET" THEN ICMP_ECHO ELSE ICMPV6_ECHO_REQUEST, 0, 0, 0 >>
        \o htons(ident) \o htons(sequence)

\* init_packet_data: for (i = data_offset; i < packet_size; i += pattern_len)
RECURSIVE FillPattern(_, _, _)
FillPattern(data, i, pattern) ==
    IF i >= Len(data) THEN data
    ELSE LET rest == Len(data) - i
             chunk_size == IF rest > Len(pattern) THEN Len(pattern) ELSE rest
         IN FillPattern(memcpy(data, i, pattern, chunk_size), i + Len(pattern), pattern)

\* init_packet_data: resize and memset, the header of an ICMP probe, the fill.
init_packet_data(probe_type, family, ident, sequence, size, pattern) ==
    LET zeroed == [i \in 1 .. packet_size(probe_type, size) |-> 0]
        headed == IF probe_type = "ICMP"
                     THEN memcpy(zeroed, 0, EchoHeader(family, ident, sequence),
                                 ICMP_HEADER_SIZE)
                     ELSE zeroed
    IN IF Len(pattern) > 0
          THEN FillPattern(headed, data_offset(probe_type), pattern)
          ELSE headed

\* The 16-bit number a receiver reads from the header's sequence field.
HeaderSequence(packet_data) ==
    packet_data[ICMP_HEADER_SIZE - 1] * 256 + packet_data[ICMP_HEADER_SIZE]

\* An engine whose destination parsed, and a send_probe(ICMP, sequence = arg)
\* about to be made on it.
SeqInit ==
    \E rk \in {"v4", "v6"}, ident \in Idents, arg \in SeqArgs :
        /\ EngineState(Construct(rk, "empty"), FALSE)
        /\ probe_call = NoProbeCall
        /\ wait_call = NoWaitCall
        /\ lock_call = NoLockCall
        /\ seq_call = [NoSeqCall EXCEPT !.pc = "called", !.family = RemoteFamily(rk),
                                        !.ident = ident, !.arg = arg]

\* send_probe: the ProbeContext is built.
SeqBuildProbe ==
    /\ seq_call.pc = "called"
    /\ seq_call' = [seq_call EXCEPT !.pc = "built",
                                    !.sequence = StoredSequence(seq_call.arg)]
    /\ UNCHANGED << source_set, callback_set, probes, running, epoll_fd, wakeup_fd,
                    start_promise, open_fds, registered, evcount, rxq, start_pc, wpc,
                    wait_left, events, wake_event, stop_pc, call_pc, call_local,
                    call_ret, call_outcome, delivered, unlocked, probe_call, wait_call,
                    lock_call >>

\* send_probe: init_packet_data(probe, ...), here with size 0 and no pattern.
SeqInitPacket ==
    /\ seq_call.pc = "built"
    /\ seq_call' = [seq_call EXCEPT !.pc = "packed",
            !.packet_data = init_packet_data("ICMP", seq_call.family, seq_call.ident,
                                             seq_call.sequence, 0, << >>)]
    /\ UNCHANGED << source_set, callback_set, probes, running, epoll_fd, wakeup_fd,
                    start_promise, open_fds, registered, evcount, rxq, start_pc, wpc,
                    wait_left, events, wake_event, stop_pc, call_pc, call_local,
                    call_ret, call_outcome, delivered, unlocked, probe_call, wait_call,
                    lock_call >>

\* trigger_callback: the result object is made from probe.sequence.
SeqCallback ==
    /\ seq_call.pc = "packed"
    /\ seq_call' = [seq_call EXCEPT !.pc = "delivered", !.result = seq_call.sequence]
    /\ UNCHANGED << source_set, callback_set, probes, running, epoll_fd, wakeup_fd,
                    start_promise, open_fds, registered, evcount, rxq, start_pc, wpc,
                    wait_left, events, wake_event, stop_pc, call_pc, call_local,
                    call_ret, call_outcome, delivered, unlocked, probe_call, wait_call,
                    lock_call >>

\* ----------------------------------------------------- the probe record
\* The sizes, patterns and sequence arguments a followed send_probe is given.
MaxSize == 12
MaxPatternLen == 3
PatternBytes == {170, 85}
Patterns == UNION {[1 .. n -> PatternBytes] : n \in 0 .. MaxPatternLen}
CtxSequences == {1, 258}
ProbeTypes == {"ICMP", "UDP"}

IPV4_OVERHEAD == 20
IPV6_OVERHEAD == 40
UDP_OVERHEAD == 8
INCOMING_BUFFER_SIZE == 2048

\* What recvmsg returns on the data pass: the length of the datagram received.
ReplyLens == {0, ICMP_HEADER_SIZE, INCOMING_BUFFER_SIZE}

\* An overhead with the families exchanged.
overhead_swapped(probe_type, family) ==
    (IF probe_type = "UDP" THEN UDP_OVERHEAD ELSE 0)
        + (IF family = "AF_INET" THEN IPV6_OVERHEAD ELSE IPV4_OVERHEAD)

\* send_probe: .overhead
overhead(probe_type, family) ==
    (IF probe_type = "UDP" THEN UDP_OVERHEAD ELSE 0)
        + (IF family = "AF_INET" THEN IPV4_OVERHEAD ELSE IPV6_OVERHEAD)

\* send_probe: the ProbeContext with the members the callback hands over.
NewContext(p, probe_type, family, sequence, timeout) ==
    [id |-> p, status |-> WAITING, age |-> 0, timeout |-> timeout,
     overhead |-> overhead(probe_type, family), probe_type |-> probe_type,
     sequence |-> StoredSequence(sequence),
     packet_data |-> << >>, reply_data |-> 0]

\* read_data: reply_data is resized to INCOMING_BUFFER_SIZE before the passes
\* and to the length received when the data pass succeeds.
reply_data_size(after, data_len) ==
    IF after.status = SUCCESS THEN data_len ELSE INCOMING_BUFFER_SIZE

\* trigger_callback: what every result object is given from the record.
trigger_callback(probe) ==
    [id |-> probe.id, status |-> probe.status, sequence |-> probe.sequence,
     sent_size |-> Len(probe.packet_data), overhead |-> probe.overhead]

\* An engine whose destination parsed, in service, and a send_probe about to be
\* made on it.
CtxInit ==
    \E rk \in {"v4", "v6"}, sk \in {"empty", "v4"}, ident \in Idents,
       size \in 0 .. MaxSize, pattern \in Patterns :
        /\ EngineState(Construct(rk, sk), TRUE)
        /\ seq_call = NoSeqCall
        /\ wait_call = NoWaitCall
        /\ lock_call = NoLockCall
        /\ probe_call = [NoProbeCall EXCEPT !.pc = "called", !.family = RemoteFamily(rk),
                                            !.ident = ident, !.size = size,
                                            !.pattern = pattern]

\* send_probe: the ProbeContext is built.
CtxBuild ==
    /\ probe_call.pc = "called"
    /\ \E probe_type \in ProbeTypes, sequence \in CtxSequences, timeout \in Timeouts :
          probe_call' = [probe_call EXCEPT !.pc = "built",
              !.probe = NewContext(1, probe_type, probe_call.family, sequence, timeout)]
    /\ UNCHANGED << source_set, callback_set, probes, running, epoll_fd, wakeup_fd,
                    start_promise, open_fds, registered, evcount, rxq, start_pc, wpc,
                    wait_left, events, wake_event, stop_pc, call_pc, call_local,
                    call_ret, call_outcome, delivered, unlocked, seq_call, wait_call,
                    lock_call >>

\* send_probe: a FATAL_ERROR return: status, callback, return.
CtxFatal(pc) ==
    LET failed == [pc.probe EXCEPT !.status = FATAL_ERROR]
    IN [pc EXCEPT !.pc = "delivered", !.probe = failed,
                  !.result = trigger_callback(failed)]

\* send_probe: socket() and bind().
CtxSocket ==
    /\ probe_call.pc = "built"
    /\ \E o \in SendOutcomes :
          /\ o = "bind_fail" => source_set
          /\ probe_call' = IF o \in {"socket_fail", "bind_fail"}
                              THEN CtxFatal(probe_call)
                              ELSE [probe_call EXCEPT !.pc = "socket"]
    /\ UNCHANGED << source_set, callback_set, probes, running, epoll_fd, wakeup_fd,
                    start_promise, open_fds, registered, evcount, rxq, start_pc, wpc,
                    wait_left, events, wake_event, stop_pc, call_pc, call_local,
                    call_ret, call_outcome, delivered, unlocked, seq_call, wait_call,
                    lock_call >>

\* send_probe: init_packet_data(probe, size, pattern, pattern_len).
CtxInitPacket ==
    /\ probe_call.pc = "socket"
    /\ probe_call' = [probe_call EXCEPT !.pc = "packed",
          !.probe.packet_data =
              init_packet_data(probe_call.probe.probe_type, probe_call.family,
                               probe_call.ident, probe_call.probe.sequence,
                               probe_call.size, probe_call.pattern)]
    /\ UNCHANGED << source_set, callback_set, probes, running, epoll_fd, wakeup_fd,
                    start_promise, open_fds, registered, evcount, rxq, start_pc, wpc,
                    wait_left, events, wake_event, stop_pc, call_pc, call_local,
                    call_ret, call_outcome, delivered, unlocked, seq_call, wait_call,
                    lock_call >>

\* send_probe: sendto(), and add_socket() unless the failure is fatal.
CtxSendto ==
    /\ probe_call.pc = "packed"
    /\ \E o \in SendOutcomes \ {"socket_fail", "bind_fail"} :
          probe_call' = IF FatalPath(o)
                           THEN CtxFatal(probe_call)
                           ELSE [probe_call EXCEPT !.pc = "inserted"]
    /\ UNCHANGED << source_set, callback_set, probes, running, epoll_fd, wakeup_fd,
                    start_promise, open_fds, registered, evcount, rxq, start_pc, wpc,
                    wait_left, events, wake_event, stop_pc, call_pc, call_local,
                    call_ret, call_outcome, delivered, unlocked, seq_call, wait_call,
                    lock_call >>

\* handler(): read_data on the record's socket, with q pending on it and a
\* datagram of n bytes for the data pass to receive.
CtxReadData ==
    /\ probe_call.pc = "inserted"
    /\ \E q \in {"data", "err", "both", "spur"}, n \in ReplyLens :
          LET after == read_data(probe_call.probe, q) IN
          probe_call' = [probe_call EXCEPT !.pc = "terminal",
              !.probe = [after EXCEPT !.reply_data = reply_data_size(after, n)],
              !.data_len = IF after.status = SUCCESS THEN n ELSE 0]
    /\ UNCHANGED << source_set, callback_set, probes, running, epoll_fd, wakeup_fd,
                    start_promise, open_fds, registered, evcount, rxq, start_pc, wpc,
                    wait_left, events, wake_event, stop_pc, call_pc, call_local,
                    call_ret, call_outcome, delivered, unlocked, seq_call, wait_call,
                    lock_call >>

\* handler(): check_timeouts() when a ms have passed since tv_sent.
CtxCheckTimeouts ==
    /\ probe_call.pc = "inserted"
    /\ \E a \in 0 .. MaxAge :
          LET swept == check_timeouts(1 :> [probe_call.probe EXCEPT !.age = a])[1] IN
          probe_call' = [probe_call EXCEPT !.probe = swept,
              !.pc = IF swept.status = WAITING THEN "inserted" ELSE "terminal"]
    /\ UNCHANGED << source_set, callback_set, probes, running, epoll_fd, wakeup_fd,
                    start_promise, open_fds, registered, evcount, rxq, start_pc, wpc,
                    wait_left, events, wake_event, stop_pc, call_pc, call_local,
                    call_ret, call_outcome, delivered, unlocked, seq_call, wait_call,
                    lock_call >>

\* handler(): after the loop, force_timeouts() and clean_probes().
CtxForceTimeouts ==
    /\ probe_call.pc = "inserted"
    /\ probe_call' = [probe_call EXCEPT !.pc = "reaped",
                         !.probe = force_timeouts(1 :> probe_call.probe)[1]]
    /\ UNCHANGED << source_set, callback_set, probes, running, epoll_fd, wakeup_fd,
                    start_promise, open_fds, registered, evcount, rxq, start_pc, wpc,
                    wait_left, events, wake_event, stop_pc, call_pc, call_local,
                    call_ret, call_outcome, delivered, unlocked, seq_call, wait_call,
                    lock_call >>

\* handler(): send_callbacks() on the record once it is not WAITING.
CtxSendCallbacks ==
    /\ probe_call.pc = "terminal"
    /\ probe_call' = [probe_call EXCEPT !.pc = "delivered",
                         !.result = trigger_callback(probe_call.probe)]
    /\ UNCHANGED << source_set, callback_set, probes, running, epoll_fd, wakeup_fd,
                    start_promise, open_fds, registered, evcount, rxq, start_pc, wpc,
                    wait_left, events, wake_event, stop_pc, call_pc, call_local,
                    call_ret, call_outcome, delivered, unlocked, seq_call, wait_call,
                    lock_call >>

\* ---------------------------------------------------------------- spec
\* handler() before the loop, and from the loop on.
WorkerStart == WorkerSetup \/ WorkerSetRunning \/ WorkerSignal

WorkerRun ==
    \/ WorkerLoop \/ WorkerEpollWait \/ WorkerDrainWakeup \/ WorkerReadData
    \/ WorkerCheckTimeouts \/ WorkerSendCallbacks \/ WorkerClean
    \/ WorkerForceTimeouts \/ WorkerFinalClean \/ WorkerClose

Starter == StartSpawn \/ StartSignalled \/ StartTimeout

Stopper == StopStore \/ StopWakeup \/ StopJoin

Callers == \E p \in Ids : SendProbeSend(p) \/ SendProbeAdd(p)

Kernel == \E f \in Fds : NetReply(f) \/ NetError(f) \/ NetSpurious(f)

\* Everything an engine does from construction on.
Next == Starter \/ WorkerStart \/ WorkerRun \/ Stopper \/ Callers \/ Kernel \/ Tick

\* Everything a started engine does.
NextStarted == WorkerRun \/ Stopper \/ Callers \/ Kernel \/ Tick

\* The engine on a destination that parsed, from construction.
Spec == Init /\ [][Next]_vars

\* The engine on a destination that parsed, in service.
SpecStarted == InitStarted /\ [][NextStarted]_vars

\* The engine on a destination that parsed as neither family, in service.
SpecInert == InitInert /\ [][NextStarted]_vars

\* The same with the scheduling the platform gives: the worker thread keeps
\* being scheduled, and time passes.
FairSpecInert == SpecInert /\ WF_vars(WorkerRun) /\ WF_vars(Tick)

\* ------------------------------------------- one call of get_min_wait_time
\* The tables get_min_wait_time can be given: up to MaxProbes entries of any
\* status but FATAL_ERROR, sent up to MaxAge ago with any of the timeouts.
WaitTables ==
    UNION {{[f \in S |-> [id |-> f, status |-> r[f].status, age |-> r[f].age,
                          timeout |-> r[f].timeout]] :
               r \in [S -> [status : {WAITING, SUCCESS, TIMEOUT, ERROR},
                            age : 0 .. MaxAge, timeout : Timeouts]]} :
           S \in SUBSET Fds}

\* An engine in service and a table on which get_min_wait_time is about to run.
MinWaitInit ==
    /\ EngineState(Construct("v4", "empty"), TRUE)
    /\ seq_call = NoSeqCall
    /\ probe_call = NoProbeCall
    /\ lock_call = NoLockCall
    /\ \E tbl \in WaitTables :
          wait_call = [NoWaitCall EXCEPT !.pc = "called", !.probes = tbl]

\* get_min_wait_time() runs and returns.
MinWaitReturn ==
    /\ wait_call.pc = "called"
    /\ wait_call' = [wait_call EXCEPT !.pc = "returned",
                                      !.ret = get_min_wait_time(wait_call.probes)]
    /\ UNCHANGED << source_set, callback_set, probes, running, epoll_fd, wakeup_fd,
                    start_promise, open_fds, registered, evcount, rxq, start_pc, wpc,
                    wait_left, events, wake_event, stop_pc, call_pc, call_local,
                    call_ret, call_outcome, delivered, unlocked, seq_call, probe_call,
                    lock_call >>

\* ------------------------------------------------------ probes_mutex
\* The worker in handler() and one caller thread, with the owner of
\* probes_mutex.  A function is entered at its first statement (the lock_guard
\* where it has one) and left at its return, where the lock_guard is destroyed.
\* What the functions do to the table is left out: send_callbacks finds any
\* number of entries to deliver, epoll_wait reports any number of sockets.

\* std::lock_guard lock(probes_mutex) in fn, by a thread that finds the mutex
\* owned by o: it proceeds when the mutex is free.  std::mutex is not
\* recursive: the thread that owns it does not proceed either.
CanLock(o, fn) == HoldsMutex(fn) => o = "none"
\* The owner once thread th is inside fn, and once it has returned from it.
Locked(o, th, fn) == IF HoldsMutex(fn) THEN th ELSE o
Unlocked(o, fn) == IF HoldsMutex(fn) THEN "none" ELSE o

\* handler(): the function called after fn; after clean_probes the loop
\* condition is tested (running may have been cleared by stop).
NextInHandler(fn, final) ==
    CASE fn = "get_min_wait_time" -> {"epoll_wait"}
      [] fn = "epoll_wait"        -> {"read_data", "check_timeouts"}
      [] fn = "read_data"         -> {"read_data", "check_timeouts"}
      [] fn = "check_timeouts"    -> {"send_callbacks"}
      [] fn = "send_callbacks"    -> {"clean_probes"}
      [] fn = "force_timeouts"    -> {"clean_probes"}
      [] fn = "clean_probes"      -> IF final THEN {"return"}
                                     ELSE {"get_min_wait_time", "force_timeouts"}

\* What a callback may call on the engine it is called from: get_queue_size,
\* or a send_probe that succeeds and so reaches add_socket.
Reentrant == {"get_queue_size", "add_socket"}

\* A started engine, the worker about to compute its first wait.
LockInit ==
    /\ EngineState(Construct("v4", "empty"), TRUE)
    /\ seq_call = NoSeqCall
    /\ probe_call = NoProbeCall
    /\ wait_call = NoWaitCall
    /\ lock_call = [NoLockCall EXCEPT !.pc = "on"]

LockAlive == lock_call.pc = "on" /\ lock_call.wat # "terminated"

\* The function the worker is entering or is inside: the one handler() called,
\* or the one its callback called.
WorkerFn == IF lock_call.wat \in {"reenter", "nested"} THEN lock_call.wcb ELSE lock_call.wfn

\* The worker enters a function: its lock_guard, or the system call itself for
\* epoll_wait.  Locking a std::mutex the thread owns is undefined; where the
\* thread blocks for ever there is no step for it.
LockWorkerEnter ==
    /\ LockAlive
    /\ lock_call.wat \in {"call", "reenter"}
    /\ CanLock(lock_call.owner, WorkerFn)
    /\ \E n \in 0 .. MaxProbes :
          lock_call' = [lock_call EXCEPT
              !.owner = Locked(lock_call.owner, "worker", WorkerFn),
              !.wat = IF lock_call.wat = "call" THEN "body" ELSE "nested",
              !.todo = IF lock_call.wat = "reenter" THEN lock_call.todo
                       ELSE IF WorkerFn = "send_callbacks" THEN n ELSE 0]
    /\ UNCHANGED << source_set, callback_set, probes, running, epoll_fd, wakeup_fd,
                    start_promise, open_fds, registered, evcount, rxq, start_pc, wpc,
                    wait_left, events, wake_event, stop_pc, call_pc, call_local,
                    call_ret, call_outcome, delivered, unlocked, seq_call, probe_call,
                    wait_call >>

\* send_callbacks: trigger_callback(callback_obj, probe.second) for the next
\* entry that is not WAITING.
LockWorkerCallback ==
    /\ LockAlive
    /\ lock_call.wfn = "send_callbacks" /\ lock_call.wat = "body"
    /\ lock_call.todo > 0
    /\ lock_call' = [lock_call EXCEPT !.wat = "callback", !.todo = lock_call.todo - 1]
    /\ UNCHANGED << source_set, callback_set, probes, running, epoll_fd, wakeup_fd,
                    start_promise, open_fds, registered, evcount, rxq, start_pc, wpc,
                    wait_left, events, wake_event, stop_pc, call_pc, call_local,
                    call_ret, call_outcome, delivered, unlocked, seq_call, probe_call,
                    wait_call >>

\* The callback returns to send_callbacks.
LockWorkerCallbackReturn ==
    /\ LockAlive
    /\ lock_call.wat = "callback"
    /\ lock_call' = [lock_call EXCEPT !.wat = "body"]
    /\ UNCHANGED << source_set, callback_set, probes, running, epoll_fd, wakeup_fd,
                    start_promise, open_fds, registered, evcount, rxq, start_pc, wpc,
                    wait_left, events, wake_event, stop_pc, call_pc, call_local,
                    call_ret, call_outcome, delivered, unlocked, seq_call, probe_call,
                    wait_call >>

\* The callback calls get_queue_size or send_probe on the engine: the worker
\* is at that function's lock_guard.
LockWorkerReenter ==
    /\ LockAlive
    /\ lock_call.wat = "callback"
    /\ \E fn \in Reentrant :
          lock_call' = [lock_call EXCEPT !.wat = "reenter", !.wcb = fn]
    /\ UNCHANGED << source_set, callback_set, probes, running, epoll_fd, wakeup_fd,
                    start_promise, open_fds, registered, evcount, rxq, start_pc, wpc,
                    wait_left, events, wake_event, stop_pc, call_pc, call_local,
                    call_ret, call_outcome, delivered, unlocked, seq_call, probe_call,
                    wait_call >>

\* Where locking a mutex the thread owns is detected, lock() throws
\* std::system_error, which leaves the worker's thread function
\* (std::terminate).
LockWorkerReenterThrows ==
    /\ LockAlive
    /\ lock_call.wat = "reenter"
    /\ HoldsMutex(lock_call.wcb) /\ lock_call.owner = "worker"
    /\ lock_call' = [lock_call EXCEPT !.wat = "terminated"]
    /\ UNCHANGED << source_set, callback_set, probes, running, epoll_fd, wakeup_fd,
                    start_promise, open_fds, registered, evcount, rxq, start_pc, wpc,
                    wait_left, events, wake_event, stop_pc, call_pc, call_local,
                    call_ret, call_outcome, delivered, unlocked, seq_call, probe_call,
                    wait_call >>

\* The function returns: to handler(), which goes on to the next one, or to
\* the callback that called it.
LockWorkerReturn ==
    /\ LockAlive
    /\ \/ /\ lock_call.wat = "body"
          /\ lock_call.todo = 0
          /\ \E nxt \in NextInHandler(lock_call.wfn, lock_call.final) :
                lock_call' = [lock_call EXCEPT
                    !.owner = Unlocked(lock_call.owner, WorkerFn),
                    !.wfn = IF nxt = "return" THEN lock_call.wfn ELSE nxt,
                    !.wat = IF nxt = "return" THEN "returned" ELSE "call",
                    !.final = lock_call.final \/ nxt = "force_timeouts"]
       \/ /\ lock_call.wat = "nested"
          /\ lock_call' = [lock_call EXCEPT
                    !.owner = Unlocked(lock_call.owner, WorkerFn),
                    !.wat = "callback", !.wcb = "none"]
    /\ UNCHANGED << source_set, callback_set, probes, running, epoll_fd, wakeup_fd,
                    start_promise, open_fds, registered, evcount, rxq, start_pc, wpc,
                    wait_left, events, wake_event, stop_pc, call_pc, call_local,
                    call_ret, call_outcome, delivered, unlocked, seq_call, probe_call,
                    wait_call >>

\* A caller thread calls get_queue_size or send_probe.
LockCallerCall ==
    /\ LockAlive
    /\ lock_call.cat = "idle"
    /\ \E fn \in {"get_queue_size", "send_probe"} :
          lock_call' = [lock_call EXCEPT !.cfn = fn, !.cat = "call"]
    /\ UNCHANGED << source_set, callback_set, probes, running, epoll_fd, wakeup_fd,
                    start_promise, open_fds, registered, evcount, rxq, start_pc, wpc,
                    wait_left, events, wake_event, stop_pc, call_pc, call_local,
                    call_ret, call_outcome, delivered, unlocked, seq_call, probe_call,
                    wait_call >>

\* The caller enters the function: its lock_guard where it has one.
LockCallerEnter ==
    /\ LockAlive
    /\ lock_call.cat = "call"
    /\ CanLock(lock_call.owner, lock_call.cfn)
    /\ lock_call' = [lock_call EXCEPT
          !.owner = Locked(lock_call.owner, "caller", lock_call.cfn),
          !.cat = "body"]
    /\ UNCHANGED << source_set, callback_set, probes, running, epoll_fd, wakeup_fd,
                    start_promise, open_fds, registered, evcount, rxq, start_pc, wpc,
                    wait_left, events, wake_event, stop_pc, call_pc, call_local,
                    call_ret, call_outcome, delivered, unlocked, seq_call, probe_call,
                    wait_call >>

\* send_probe: a FATAL_ERROR path, trigger_callback(callback_obj, probe).
LockCallerFatal ==
    /\ LockAlive
    /\ lock_call.cfn = "send_probe" /\ lock_call.cat = "body"
    /\ lock_call' = [lock_call EXCEPT !.cat = "callback"]
    /\ UNCHANGED << source_set, callback_set, probes, running, epoll_fd, wakeup_fd,
                    start_promise, open_fds, registered, evcount, rxq, start_pc, wpc,
                    wait_left, events, wake_event, stop_pc, call_pc, call_local,
                    call_ret, call_outcome, delivered, unlocked, seq_call, probe_call,
                    wait_call >>

\* send_probe: add_socket(sock, probe).
LockCallerAddSocket ==
    /\ LockAlive
    /\ lock_call.cfn = "send_probe" /\ lock_call.cat = "body"
    /\ lock_call' = [lock_call EXCEPT !.cfn = "add_socket", !.cat = "call"]
    /\ UNCHANGED << source_set, callback_set, probes, running, epoll_fd, wakeup_fd,
                    start_promise, open_fds, registered, evcount, rxq, start_pc, wpc,
                    wait_left, events, wake_event, stop_pc, call_pc, call_local,
                    call_ret, call_outcome, delivered, unlocked, seq_call, probe_call,
                    wait_call >>

\* The callback send_probe made calls get_queue_size on the engine.
LockCallerReenter ==
    /\ LockAlive
    /\ lock_call.cat = "callback" /\ lock_call.ccb = "none"
    /\ lock_call' = [lock_call EXCEPT !.cat = "reenter", !.ccb = "get_queue_size"]
    /\ UNCHANGED << source_set, callback_set, probes, running, epoll_fd, wakeup_fd,
                    start_promise, open_fds, registered, evcount, rxq, start_pc, wpc,
                    wait_left, events, wake_event, stop_pc, call_pc, call_local,
                    call_ret, call_outcome, delivered, unlocked, seq_call, probe_call,
                    wait_call >>

\* Its lock_guard gets the mutex.
LockCallerReenterLock ==
    /\ LockAlive
    /\ lock_call.cat = "reenter"
    /\ CanLock(lock_call.owner, lock_call.ccb)
    /\ lock_call' = [lock_call EXCEPT
          !.owner = Locked(lock_call.owner, "caller", lock_call.ccb),
          !.cat = "nested"]
    /\ UNCHANGED << source_set, callback_set, probes, running, epoll_fd, wakeup_fd,
                    start_promise, open_fds, registered, evcount, rxq, start_pc, wpc,
                    wait_left, events, wake_event, stop_pc, call_pc, call_local,
                    call_ret, call_outcome, delivered, unlocked, seq_call, probe_call,
                    wait_call >>

\* get_queue_size returns to the callback.
LockCallerReenterReturn ==
    /\ LockAlive
    /\ lock_call.cat = "nested"
    /\ lock_call' = [lock_call EXCEPT
          !.owner = Unlocked(lock_call.owner, lock_call.ccb),
          !.cat = "callback"]
    /\ UNCHANGED << source_set, callback_set, probes, running, epoll_fd, wakeup_fd,
                    start_promise, open_fds, registered, evcount, rxq, start_pc, wpc,
                    wait_left, events, wake_event, stop_pc, call_pc, call_local,
                    call_ret, call_outcome, delivered, unlocked, seq_call, probe_call,
                    wait_call >>

\* The caller's function returns: get_queue_size, add_socket (and with it
\* send_probe), or the callback and send_probe after it.
LockCallerReturn ==
    /\ LockAlive
    /\ \/ lock_call.cat = "body" /\ lock_call.cfn \in {"get_queue_size", "add_socket"}
       \/ lock_call.cat = "callback"
    /\ lock_call' = [lock_call EXCEPT
          !.owner = IF lock_call.cat = "body"
                       THEN Unlocked(lock_call.owner, lock_call.cfn)
                       ELSE lock_call.owner,
          !.cfn = "none", !.cat = "idle", !.ccb = "none"]
    /\ UNCHANGED << source_set, callback_set, probes, running, epoll_fd, wakeup_fd,
                    start_promise, open_fds, registered, evcount, rxq, start_pc, wpc,
                    wait_left, events, wake_event, stop_pc, call_pc, call_local,
                    call_ret, call_outcome, delivered, unlocked, seq_call, probe_call,
                    wait_call >>

\* The engine in service with the scheduling the platform gives: the worker
\* thread and the thread in stop() keep being scheduled.
FairSpecStarted == SpecStarted /\ WF_vars(WorkerRun) /\ WF_vars(Stopper)

\* The path of one sequence number.
SeqNext == SeqBuildProbe \/ SeqInitPacket \/ SeqCallback
SeqSpec == SeqInit /\ [][SeqNext]_vars

\* One call of get_min_wait_time.
MinWaitSpec == MinWaitInit /\ [][MinWaitReturn]_vars

\* probes_mutex between the worker and a caller.
LockWorker ==
    \/ LockWorkerEnter \/ LockWorkerCallback \/ LockWorkerCallbackReturn
    \/ LockWorkerReenter \/ LockWorkerReenterThrows \/ LockWorkerReturn
LockCaller ==
    \/ LockCallerCall \/ LockCallerEnter \/ LockCallerFatal \/ LockCallerAddSocket
    \/ LockCallerReenter \/ LockCallerReenterLock \/ LockCallerReenterReturn
    \/ LockCallerReturn
LockSpec == LockInit /\ [][LockWorker \/ LockCaller]_vars

\* The path of one probe record.
CtxNext ==
    \/ CtxBuild \/ CtxSocket \/ CtxInitPacket \/ CtxSendto
    \/ CtxReadData \/ CtxCheckTimeouts \/ CtxForceTimeouts \/ CtxSendCallbacks
CtxSpec == CtxInit /\ [][CtxNext]_vars

\* -------------------------------------------------------------- claims
\* The table entry of call p, if it has one.
Entries(p) == {f \in DOMAIN probes : probes[f].id = p}
\* send_probe call p has returned SEND_PROBE_SUCCESS.
Accepted(p) == call_pc[p] = "returned" /\ call_ret[p] = SEND_PROBE_SUCCESS
\* The callback has been invoked for p.
Delivered(p) == delivered[p] # << >>
\* stop() has been called.
StopRequested == stop_pc # "idle"
\* The deadline tv_sent + timeout of some WAITING entry has been reached.
DeadlineReached == \E f \in Waiting(probes) : probes[f].age >= probes[f].timeout
\* The system calls of send_probe that fail on its FATAL_ERROR paths.
LocalFailures == {"socket_fail", "bind_fail", "ENETUNREACH"}
\* The worker has not created the epoll instance and the notifier.
MultiplexorNotSetUp == epoll_fd = "none" \/ wakeup_fd = "none"

\* The worker is in read_data(f): the step of handler() that takes descriptor f
\* off the events epoll_wait returned.
ReadStep(f) ==
    /\ wpc = "dispatch" /\ ~wake_event
    /\ events # {} /\ f = Min(events)
    /\ events' = events \ {f}

\* The followed send_probe has built its packet.
Packed == probe_call.pc \in {"packed", "inserted", "terminal", "reaped"}
\* The followed record has been passed to the callback.
Passed == probe_call.pc = "delivered"

\* C1 (uniqueness of delivery): for every probe on which send_probe returned 0
\* the callback is invoked exactly once: never twice, and once the probe's
\* entry has left the table (nothing is left to deliver it) it has been invoked.
C1_DeliveredExactlyOnce ==
    \A p \in Ids :
        Accepted(p) =>
            /\ Len(delivered[p]) <= 1
            /\ Entries(p) = {} => Len(delivered[p]) = 1

\* C2 (shutdown drain): the worker's pass after the loop reaps only entries
\* whose callback has been invoked, so that every probe outstanding at stop
\* has been delivered before stop returns.
C2_ShutdownDrain ==
    [][(wpc = "finalclean" /\ wpc' = "close")
          => \A f \in Terminal(probes) : Delivered(probes[f].id)]_vars

\* C3 (table drain): once stop has returned, get_queue_size is 0, whatever
\* send_probe calls ran alongside it.
C3_TableDrained == stop_pc = "returned" => get_queue_size = 0

\* C4 (no early timeout): while stop has not been requested, an entry has
\* status TIMEOUT only when more than its timeout has elapsed since tv_sent.
C4_NoEarlyTimeout ==
    stop_pc = "idle" =>
        \A f \in DOMAIN probes :
            probes[f].status = TIMEOUT => probes[f].age > probes[f].timeout

\* C5 (deadline liveness): a probe in the table of a running worker is
\* eventually delivered, unless stop is requested first; and the worker is
\* never left blocked in epoll_wait once a WAITING probe's deadline is reached.
C5_DeadlineLiveness ==
    /\ [](wpc = "wait" /\ DeadlineReached => CanWake)
    /\ \A p \in Ids :
          (Entries(p) # {} /\ running /\ ~StopRequested)
              ~> (Delivered(p) \/ StopRequested)

\* C6 (local failure path): a send_probe whose socket(), bind() or sendto()
\* (errno other than EMSGSIZE) fails invokes the callback once with FATAL_ERROR
\* on the caller's thread, returns -1, leaves no socket open and leaves the
\* table and the registrations as they were.
C6_LocalFailurePath ==
    [][\A p \in Ids :
          (call_pc[p] = "idle" /\ call_outcome'[p] \in LocalFailures)
              => /\ call_pc'[p] = "returned"
                 /\ call_ret'[p] = SEND_PROBE_ERROR
                 /\ delivered'[p] = << Delivery(FATAL_ERROR, "caller") >>
                 /\ open_fds' = open_fds
                 /\ probes' = probes
                 /\ registered' = registered]_vars

\* C7 (EMSGSIZE soft-fail): a send_probe whose sendto() failed with EMSGSIZE
\* returns 0 with no callback invoked, its probe in the table as WAITING and
\* its socket open and registered with the epoll instance.
C7_EmsgsizeSoftFail ==
    [][\A p \in Ids :
          (call_pc[p] = "sent" /\ call_pc'[p] = "returned"
              /\ call_outcome[p] = "EMSGSIZE")
              => /\ call_ret'[p] = SEND_PROBE_SUCCESS
                 /\ delivered'[p] = << >>
                 /\ \E f \in DOMAIN probes' :
                       /\ probes'[f].id = p
                       /\ probes'[f].status = WAITING
                       /\ f \in open_fds'
                       /\ f \in registered']_vars

\* C8 (send_probe after a failed start): a send_probe that returns after
\* start() returned, while the worker has not set up the epoll instance and
\* the notifier, has returned -1 and left no entry in the table.
C8_SendFailsAfterFailedStart ==
    (start_pc = "returned" /\ MultiplexorNotSetUp) =>
        \A p \in Ids :
            call_pc[p] = "returned" =>
                call_ret[p] = SEND_PROBE_ERROR /\ Entries(p) = {}

\* C9 (inert engine): on an engine whose destination parsed as neither family
\* no probe is ever in the table, and every send_probe that has ended returned
\* -1 after the callback was invoked with FATAL_ERROR on the caller's thread.
C9_InertEngine ==
    /\ probes = << >>
    /\ \A p \in Ids :
          call_pc[p] \in {"returned", "threw"} =>
              /\ call_pc[p] = "returned"
              /\ call_ret[p] = SEND_PROBE_ERROR
              /\ delivered[p] = << Delivery(FATAL_ERROR, "caller") >>

\* C10 (sequence wrap): for a sequence argument s >= 0 the sequence stored in
\* the record, the one in the echo header (big-endian) and the one in the
\* delivered result are all s mod 65536.
C10_SequenceWrap ==
    seq_call.pc = "delivered" =>
        LET s == seq_call.arg % (2 ^ 16) IN
        /\ seq_call.sequence = s
        /\ HeaderSequence(seq_call.packet_data) = s
        /\ seq_call.result = s

\* C11 (registration invariant): while running is true, every descriptor that
\* is a key of the probe table is registered with the epoll instance and open.
C11_RegistrationInvariant ==
    running => \A f \in DOMAIN probes : f \in registered /\ f \in open_fds

\* C12 (worker-init failure): when epoll_create1 or eventfd failed, the worker
\* has stored an exception in the start promise and returned, running is not
\* true, and start() goes from its wait to its return; the promise, once
\* fulfilled, is never fulfilled again.
C12_WorkerInitFailure ==
    /\ []((wpc \notin {"nothread", "setup"} /\ MultiplexorNotSetUp)
            => (start_promise = "exception" /\ wpc = "exited" /\ ~running))
    /\ [][start_promise # "unset" => start_promise' = start_promise]_vars
    /\ [][(start_promise = "exception" /\ start_pc = "waiting" /\ start_pc' # start_pc)
            => start_pc' = "returned"]_vars

\* start() returned after the worker failed to set up.
C12_Witness ==
    /\ start_pc = "returned" /\ start_promise = "exception"
    /\ wpc = "exited" /\ wakeup_fd = "none"

\* C13 (start handshake): the worker fulfils the start promise with a value
\* only when running is true and the epoll instance and the notifier exist, so
\* that whenever the promise holds a value and stop has not been called,
\* running is true and both exist.
C13_StartHandshake ==
    /\ []((start_promise = "value" /\ stop_pc = "idle")
            => (running /\ epoll_fd = "open" /\ wakeup_fd = "open"))
    /\ [][(start_promise = "unset" /\ start_promise' = "value" /\ stop_pc = "idle")
            => (running /\ epoll_fd = "open" /\ wakeup_fd = "open")]_vars

\* start() returned on the worker's signal and a probe is in the table.
C13_Witness ==
    /\ start_pc = "returned" /\ start_promise = "value" /\ stop_pc = "idle"
    /\ running /\ probes # << >>

\* C14 (payload shape): the packet built for size S, pattern P of length L and
\* a probe type is max(S, 8) bytes long for ICMP and S for UDP; an ICMP
\* packet begins with the echo header (type 8 or 128, code 0, checksum 0 0,
\* identifier and sequence big-endian); every byte from the header's end on
\* (from 0 for UDP) is P[(i - header_end) mod L], or 0 when L = 0.
C14_PayloadShape ==
    Packed =>
        LET packet == probe_call.probe.packet_data
            icmp == probe_call.probe.probe_type = "ICMP"
            S == probe_call.size
            P == probe_call.pattern
            L == Len(P)
            header_end == IF icmp THEN 8 ELSE 0
        IN /\ Len(packet) = IF icmp /\ S < 8 THEN 8 ELSE S
           /\ icmp =>
                 /\ packet[1] = IF probe_call.family = "AF_INET" THEN 8 ELSE 128
                 /\ packet[2] = 0 /\ packet[3] = 0 /\ packet[4] = 0
                 /\ packet[5] * 256 + packet[6] = probe_call.ident
                 /\ packet[7] * 256 + packet[8] = probe_call.probe.sequence
           /\ \A i \in header_end .. Len(packet) - 1 :
                 packet[i + 1] = IF L > 0 THEN P[((i - header_end) % L) + 1] ELSE 0

\* An ICMP packet whose payload ends in a truncated repetition of the pattern.
C14_Witness ==
    /\ Packed
    /\ probe_call.probe.probe_type = "ICMP"
    /\ probe_call.size = MaxSize
    /\ Len(probe_call.pattern) = MaxPatternLen
    /\ (MaxSize - ICMP_HEADER_SIZE) % MaxPatternLen # 0
    /\ probe_call.pattern[1] # probe_call.pattern[2]

\* C15 (overhead reporting): every result passed to the callback, by the worker
\* and by a FATAL_ERROR return of send_probe, carries overhead = (8 if UDP,
\* else 0) + (20 if the destination is IPv4, else 40); and nothing changes a
\* record's overhead once send_probe has set it.
C15_OverheadReporting ==
    /\ [](Passed =>
            probe_call.result.overhead =
                (IF probe_call.probe.probe_type = "UDP" THEN 8 ELSE 0)
                    + (IF probe_call.family = "AF_INET" THEN 20 ELSE 40))
    /\ [][probe_call.pc \notin {"off", "called"}
            => probe_call'.probe.overhead = probe_call.probe.overhead]_vars

\* A UDP probe to an IPv6 destination delivered by the worker as SUCCESS.
C15_Witness ==
    /\ Passed
    /\ probe_call.probe.probe_type = "UDP" /\ probe_call.family = "AF_INET6"
    /\ probe_call.result.status = SUCCESS

\* C16 (descriptor ownership): a descriptor that is a key of the table is open
\* (so the reaper never closes one twice); the socket of a send_probe between
\* sendto and add_socket is open and no key of the table (so the reaper cannot
\* close it, whatever numbers are reused); and a step that closes a descriptor
\* is the reaper's, closing a key whose entry it erases in the same step.
C16_DescriptorOwnership ==
    /\ [](DOMAIN probes \subseteq open_fds)
    /\ [](\A p \in Ids : call_pc[p] = "sent" =>
             /\ call_local[p].sock \in open_fds \ DOMAIN probes
             /\ \A q \in Ids \ {p} :
                   call_pc[q] = "sent" => call_local[q].sock # call_local[p].sock)
    /\ [][\A f \in open_fds \ open_fds' :
             /\ wpc \in {"clean", "finalclean"}
             /\ f \in Terminal(probes)
             /\ f \notin DOMAIN probes']_vars

\* The reaper closed descriptor 1, a later send_probe got the number again and
\* its probe is in the table under it.
C16_Witness ==
    /\ \E f \in DOMAIN probes : probes[f].id = 2 /\ f = 1 /\ f \in open_fds
    /\ Delivered(1) /\ delivered[1][1].thread = "worker"

\* C17 (mutex discipline): every read or write of the probe table and every
\* EPOLL_CTL_ADD / EPOLL_CTL_DEL, by the worker and by callers, is made with
\* probes_mutex held: no access has been made without it.
C17_MutexDiscipline == unlocked = {}

\* C17, amended: every read or write of the probe table and every epoll_ctl on
\* a probe socket is made with probes_mutex held; the one access made without
\* it is the notifier's registration in setup_epoll, which the worker makes
\* before it sets running and before it fulfils the start promise.
C17_MutexDisciplineProbes ==
    /\ [](unlocked \subseteq {SetupAccess})
    /\ [][unlocked' # unlocked
            => (wpc = "setup" /\ ~running /\ start_promise = "unset")]_vars

\* The notifier was registered without the lock and a probe's socket with it,
\* and the reaper has since run on the table.
C17_Witness ==
    /\ SetupAccess \in unlocked
    /\ registered # {}
    /\ \E p \in Ids : Delivered(p) /\ Entries(p) = {} /\ Accepted(p)

\* C18 (spurious readiness): when read_data runs on the descriptor of a
\* WAITING probe and neither receive yields anything, the probe is still
\* WAITING afterwards.
C18_SpuriousStaysWaiting ==
    [][\A f \in Fds :
          (ReadStep(f) /\ rxq[f] = "spur" /\ Lookup(probes, f).status = WAITING)
              => probes'[f].status = WAITING]_vars

\* C19 (error precedence): when read_data finds an extended error on the error
\* queue the status becomes ERROR and a datagram queued on the same socket is
\* left there; when it finds none and a datagram is queued, the datagram is
\* received and the status becomes SUCCESS.
C19_ErrorPrecedence ==
    [][\A f \in Fds :
          ReadStep(f) =>
              /\ HasError(rxq[f]) =>
                    /\ probes'[f].status = ERROR
                    /\ HasData(rxq[f]) => HasData(rxq'[f])
              /\ (~HasError(rxq[f]) /\ HasData(rxq[f])) =>
                    /\ probes'[f].status = SUCCESS
                    /\ rxq'[f] = "none"]_vars

\* read_data ran on a socket with an extended error and a reply both queued.
C19_Witness ==
    \E f \in DOMAIN probes :
        probes[f].status = ERROR /\ rxq[f] = "data" /\ wpc = "check"

\* C20 (reply_data): the record passed to the callback has reply_data of
\* length 0 when its status is TIMEOUT, ERROR or FATAL_ERROR, and of the length
\* the data receive returned when its status is SUCCESS.
C20_ReplyDataEmptyUnlessSuccess ==
    Passed =>
        /\ probe_call.probe.status \in {TIMEOUT, ERROR, FATAL_ERROR}
              => probe_call.probe.reply_data = 0
        /\ probe_call.probe.status = SUCCESS
              => probe_call.probe.reply_data = probe_call.data_len

\* The worker is in epoll_wait; it is inside a delivery pass of send_callbacks.
InWait == lock_call.wfn = "epoll_wait" /\ lock_call.wat = "body"
InDeliveryPass ==
    lock_call.wfn = "send_callbacks" /\ lock_call.wat \in {"body", "callback", "reenter"}
\* The caller thread is inside a function that reads or writes the table.
CallerInTable ==
    \/ lock_call.cat = "body" /\ lock_call.cfn \in {"add_socket", "get_queue_size"}
    \/ lock_call.cat = "nested"

\* The worker's step is a run of the reaper, clean_probes.
ReaperRun == wpc \in {"clean", "finalclean"} /\ wpc' # wpc

\* C21 (reap frame): a run of the reaper erases every entry that is not
\* WAITING, leaving its descriptor unregistered and closed, and leaves every
\* WAITING entry, its registration and its descriptor as they were, so that no
\* terminal entry remains; an entry enters the table only when add_socket
\* inserts it and leaves it only in a run of the reaper.
C21_ReapFrame ==
    /\ [][ReaperRun =>
            /\ DOMAIN probes' = Waiting(probes)
            /\ \A f \in Waiting(probes) :
                  /\ probes'[f] = probes[f]
                  /\ (f \in registered') = (f \in registered)
                  /\ (f \in open_fds') = (f \in open_fds)
            /\ \A f \in Terminal(probes) : f \notin registered' /\ f \notin open_fds'
            /\ Terminal(probes') = {}]_vars
    /\ [][DOMAIN probes \ DOMAIN probes' # {} => ReaperRun]_vars
    /\ [][\A f \in DOMAIN probes' \ DOMAIN probes :
             \E p \in Ids : /\ call_pc[p] = "sent" /\ call_pc'[p] = "returned"
                            /\ call_local[p].sock = f]_vars

\* The reaper ran on a table holding a terminal entry and a WAITING one, and
\* the WAITING one is left, registered and open.
C21_Witness ==
    /\ wpc = "loop"
    /\ \E p \in Ids : Delivered(p) /\ Accepted(p) /\ Entries(p) = {}
    /\ \E f \in Waiting(probes) : f \in registered /\ f \in open_fds

\* C22 (no lock across the wait): the worker does not own probes_mutex while
\* it is in epoll_wait: the lock taken by get_min_wait_time is released when
\* it returns, before the wait begins, so a caller at the lock_guard of
\* add_socket or get_queue_size during a wait can take the mutex.
C22_NoLockAcrossWait ==
    /\ [](InWait => lock_call.owner # "worker")
    /\ []((InWait /\ lock_call.cat = "call"
              /\ lock_call.cfn \in {"add_socket", "get_queue_size"})
           => ENABLED LockCallerEnter)
    /\ [][(lock_call.wfn = "get_min_wait_time" /\ lock_call'.wfn = "epoll_wait")
            => lock_call.owner = "worker" /\ lock_call'.owner = "none"]_vars

\* The worker is in epoll_wait and the caller is inside add_socket, owning the
\* mutex.
C22_Witness ==
    /\ InWait
    /\ lock_call.cfn = "add_socket" /\ lock_call.cat = "body"
    /\ lock_call.owner = "caller"

\* C23 (min-wait): get_min_wait_time returns -1 when the table holds no WAITING
\* probe and otherwise the least, over the WAITING probes, of
\* max(0, timeout - elapsed); entries that are not WAITING do not change the
\* result, which is never negative when a WAITING probe exists.
C23_MinWait ==
    wait_call.pc = "returned" =>
        LET tbl == wait_call.probes
            left(f) == IF tbl[f].timeout - tbl[f].age < 0 THEN 0
                       ELSE tbl[f].timeout - tbl[f].age
        IN /\ Waiting(tbl) = {} => wait_call.ret = -1
           /\ Waiting(tbl) # {} =>
                 /\ wait_call.ret = Min({left(f) : f \in Waiting(tbl)})
                 /\ wait_call.ret >= 0
           /\ wait_call.ret = get_min_wait_time([f \in Waiting(tbl) |-> tbl[f]])

\* The call returned 0 for a table whose first WAITING probe still has time
\* left and whose second is overdue.
C23_Witness ==
    /\ wait_call.pc = "returned"
    /\ LET tbl == wait_call.probes IN
       /\ DOMAIN tbl = Fds
       /\ tbl[1].status = WAITING /\ tbl[1].timeout - tbl[1].age > 0
       /\ tbl[2].status = WAITING /\ tbl[2].timeout - tbl[2].age < 0
       /\ wait_call.ret = 0

\* C24 (at-most-once delivery): no probe is passed to the callback more than
\* once; an entry whose probe has been delivered is in the table only until
\* the clean_probes of the same pass, so no later send_callbacks meets it.
C24_AtMostOnce ==
    /\ \A p \in Ids : Len(delivered[p]) <= 1
    /\ \A f \in DOMAIN probes :
          (probes[f].id \in Ids /\ Delivered(probes[f].id)) => wpc = "clean"

\* Both probes have been delivered, one by send_probe and one by the worker.
C24_Witness ==
    /\ \E p \in Ids : delivered[p] # << >> /\ delivered[p][1].thread = "caller"
    /\ \E p \in Ids : delivered[p] # << >> /\ delivered[p][1].thread = "worker"

\* C25 (all WAITING at the wait): when the worker tests the loop condition or
\* is in epoll_wait every entry of the table is WAITING; an entry has another
\* status only between the receiver or the timeout sweep and the reaper of the
\* same pass; and no entry ever has status FATAL_ERROR.
C25_AllWaitingAtWait ==
    /\ wpc \in {"loop", "wait"} => Terminal(probes) = {}
    /\ (Alive /\ Terminal(probes) # {})
          => wpc \in {"dispatch", "check", "callbacks", "clean", "finalclean"}
    /\ \A f \in DOMAIN probes : probes[f].status # FATAL_ERROR

\* The worker is in epoll_wait on a table that holds a probe, after a pass
\* that delivered another.
C25_Witness ==
    /\ wpc = "wait" /\ probes # << >>
    /\ \E p \in Ids : Delivered(p) /\ delivered[p][1].thread = "worker"

\* C26 (no overwrite on descriptor reuse): add_socket never stores a probe
\* under a descriptor that is already a key of the table, and read_data is
\* never run for a descriptor that is not a key: every descriptor registered
\* with epoll is a key.
C26_NoOverwriteOnReuse ==
    /\ [](registered \subseteq DOMAIN probes)
    /\ [][\A p \in Ids :
             (call_pc[p] = "sent" /\ call_pc'[p] = "returned")
                 => call_local[p].sock \notin DOMAIN probes]_vars
    /\ [][\A f \in Fds : ReadStep(f) => f \in DOMAIN probes]_vars

\* read_data has run on descriptor 1 while it was the key of the second probe,
\* the first having been reaped from the same number.
C26_Witness ==
    /\ Delivered(1) /\ delivered[1][1].thread = "worker"
    /\ \E f \in DOMAIN probes : f = 1 /\ probes[f].id = 2 /\ probes[f].status = SUCCESS

\* C27 (stop terminates): on an engine whose start returned on the worker's
\* signal, a stop that has been called eventually returns.
C27_StopTerminates == StopRequested ~> (stop_pc = "returned")

\* stop has stored running = false and has not yet written to the notifier,
\* while the worker is in a wait without timeout with nothing to wake it.
C27_Witness ==
    /\ stop_pc = "stored"
    /\ wpc = "wait" /\ wait_left = -1
    /\ evcount = 0 /\ ReadySockets = {}

\* C28 (callback under lock): the worker owns probes_mutex from the first to
\* the last callback of a delivery pass, so no caller is inside a function
\* that reads or writes the table meanwhile; the callback send_probe makes on a
\* FATAL_ERROR path runs without the mutex; and a callback of the worker that
\* calls get_queue_size or a succeeding send_probe on the engine never gets
\* the mutex.
C28_CallbackUnderLock ==
    /\ InDeliveryPass => lock_call.owner = "worker" /\ ~CallerInTable
    /\ (lock_call.cfn = "send_probe" /\ lock_call.cat = "callback")
           => lock_call.owner # "caller"
    /\ lock_call.wat = "reenter" => ~ENABLED LockWorkerEnter
    /\ lock_call.wat # "nested"

\* The worker's callback has called get_queue_size and waits for the mutex the
\* worker owns, a second entry still to deliver, and a caller waits for it in
\* add_socket.
C28_Witness ==
    /\ lock_call.wat = "reenter" /\ lock_call.wcb = "get_queue_size"
    /\ lock_call.owner = "worker" /\ lock_call.todo = 1
    /\ lock_call.cfn = "add_socket" /\ lock_call.cat = "call"

====
